---- MODULE Spec2Model ----
(***************************************************************************)
(* Agent configuration store (app/services/agent_service.py) and the       *)
(* admin routes over it (app/routes/agents.py).                            *)
(*                                                                         *)
(* The storage file agents.json is modelled by its parsed content; a       *)
(* Python Optional value is a set with at most one element (None == {});   *)
(* an Optional[AgentConfig] or bool return value is a sequence of length   *)
(* at most one, so that every return value is a sequence.                   *)
(***************************************************************************)
EXTENDS Integers, Sequences, FiniteSets, TLC

VARIABLES
    file,       \* content of data/agents.json
    service,    \* _agent_service is not None (the singleton was constructed)
    nextUuid,   \* number of the next value uuid.uuid4() yields
    pre,        \* content of the file when the last operation started
    op,         \* the last operation or request, with its arguments
    ret,        \* what the last operation returned or raised
    calls,      \* the store and real-time client calls of the last operation, in order
    resp,       \* the HTTP response to the last request
    pc,         \* per worker: position inside a store mutation
    snap,       \* per worker: the list its _load_agents returned
    req         \* per worker: the mutation it runs

vars == <<file, service, nextUuid, pre, op, ret, calls, resp, pc, snap, req>>

-----------------------------------------------------------------------------
(* Bounds of the model *)

\* most records the file holds
MaxAgents == 2
\* most uuid4() draws
MaxUuid == 2

-----------------------------------------------------------------------------
(* AgentConfig *)

Fields ==
    {"id", "name", "enabled", "model_provider", "model", "voice",
     "first_message", "noise_cancellation", "n8n_mcp_url", "metadata"}

None == {}
Some(v) == {v}
Val(o) == CHOOSE v \in o : TRUE

\* the n-th value of uuid.uuid4(): distinct for distinct n, never empty
Uuid(n) == "u" \o ToString(n)

\* defaults of AgentConfig.__init__ (id defaults to None)
Defaults ==
    [name |-> "", enabled |-> TRUE, model_provider |-> "google",
     model |-> "gemini-2.0-flash-exp", voice |-> "Puck",
     first_message |-> "Hello! How can I help you today?",
     noise_cancellation |-> TRUE, n8n_mcp_url |-> "", metadata |-> ""]

\* self.id = id or str(uuid.uuid4()): None (no id keyword) and "" both draw a uuid
AgentConfigId(kwargs, fresh) ==
    IF "id" \in DOMAIN kwargs /\ kwargs["id"] # "" THEN kwargs["id"] ELSE fresh

\* whether the constructor draws a uuid for these keywords
DrawsUuid(kwargs) == ~("id" \in DOMAIN kwargs /\ kwargs["id"] # "")

\* AgentConfig(**kwargs), kwargs among the ten parameters; fresh is what
\* uuid4() yields if it is called
AgentConfig(kwargs, fresh) ==
    [f \in Fields |->
        IF f = "id" THEN AgentConfigId(kwargs, fresh)
        ELSE IF f \in DOMAIN kwargs THEN kwargs[f]
        ELSE Defaults[f]]

\* the dict of the ten attributes
to_dict(config) == [f \in Fields |-> config[f]]

\* cls(**data)
from_dict(data, fresh) == AgentConfig(data, fresh)

-----------------------------------------------------------------------------
(* The storage file *)

\* no file
Missing == [kind |-> "missing", agents |-> <<>>]
\* not JSON
Invalid == [kind |-> "invalid", agents |-> <<>>]
\* JSON whose top level is not an object (an array, a string, null)
NotObject == [kind |-> "array", agents |-> <<>>]
\* a JSON object without the key "agents"
NoAgentsKey == [kind |-> "object_no_agents", agents |-> <<>>]
\* {"agents": [...]}
Document(agents) == [kind |-> "object", agents |-> agents]

\* _load_agents: FileNotFoundError and JSONDecodeError are caught, data.get on
\* a parsed value that is no dict raises AttributeError
load_agents(f) ==
    CASE f.kind \in {"missing", "invalid"} -> [exc |-> "", agents |-> <<>>]
      [] f.kind = "array" -> [exc |-> "AttributeError", agents |-> <<>>]
      [] f.kind = "object_no_agents" -> [exc |-> "", agents |-> <<>>]
      [] OTHER -> [exc |-> "", agents |-> f.agents]

\* _save_agents: the whole document is replaced
save_agents(agents) == Document(agents)

\* _ensure_data_dir: writes the empty list when there is no file
ensure_data_dir(f) ==
    IF f.kind = "missing"
    THEN [file |-> save_agents(<<>>), calls |-> <<"ensure_data_dir", "save_agents">>]
    ELSE [file |-> f, calls |-> <<"ensure_data_dir">>]

-----------------------------------------------------------------------------
(* AgentService *)

\* position of the first dict whose "id" is agent_id, 0 when there is none
FirstIndex(agents, agent_id) ==
    IF \E i \in 1..Len(agents) : agents[i]["id"] = agent_id
    THEN CHOOSE i \in 1..Len(agents) :
            /\ agents[i]["id"] = agent_id
            /\ \A j \in 1..(i - 1) : agents[j]["id"] # agent_id
    ELSE 0

Raised(f, exc, cs) == [exc |-> exc, file |-> f, ret |-> <<>>, calls |-> cs]

list_agents(f, fresh) ==
    LET L == load_agents(f) IN
    IF L.exc # "" THEN Raised(f, L.exc, <<"load_agents">>)
    ELSE [exc |-> "", file |-> f,
          ret |-> [i \in 1..Len(L.agents) |-> from_dict(L.agents[i], fresh)],
          calls |-> <<"load_agents">>]

get_agent(f, agent_id, fresh) ==
    LET L == load_agents(f)
        i == FirstIndex(L.agents, agent_id)
    IN  IF L.exc # "" THEN Raised(f, L.exc, <<"load_agents">>)
        ELSE [exc |-> "", file |-> f,
              ret |-> IF i = 0 THEN <<>> ELSE <<from_dict(L.agents[i], fresh)>>,
              calls |-> <<"load_agents">>]

create_agent(f, config) ==
    LET L == load_agents(f) IN
    IF L.exc # "" THEN Raised(f, L.exc, <<"load_agents">>)
    ELSE [exc |-> "", file |-> save_agents(Append(L.agents, to_dict(config))),
          ret |-> <<config>>,
          calls |-> <<"load_agents", "save_agents">>]

\* faulty variant of the field loop: the record is rebuilt from the keywords,
\* so a field that was not given falls back to its default
UpdateFieldsResetOthers(agent_data, kwargs) ==
    [f \in DOMAIN agent_data \cup {k \in DOMAIN kwargs : kwargs[k] # None} |->
        IF f \in DOMAIN kwargs /\ kwargs[f] # None THEN Val(kwargs[f])
        ELSE IF f = "id" THEN agent_data[f] ELSE Defaults[f]]

\* for key, value in kwargs.items(): if value is not None: agent_data[key] = value
UpdateFieldsOmitNone(agent_data, kwargs) ==
    [f \in DOMAIN agent_data \cup {k \in DOMAIN kwargs : kwargs[k] # None} |->
        IF f \in DOMAIN kwargs /\ kwargs[f] # None THEN Val(kwargs[f]) ELSE agent_data[f]]

update_agent(f, agent_id, kwargs, fresh) ==
    LET L == load_agents(f)
        i == FirstIndex(L.agents, agent_id)
        agent_data == UpdateFieldsOmitNone(L.agents[i], kwargs)
    IN  IF L.exc # "" THEN Raised(f, L.exc, <<"load_agents">>)
        ELSE IF i = 0
        THEN [exc |-> "", file |-> f, ret |-> <<>>, calls |-> <<"load_agents">>]
        ELSE [exc |-> "", file |-> save_agents([L.agents EXCEPT ![i] = agent_data]),
              ret |-> <<from_dict(agent_data, fresh)>>,
              calls |-> <<"load_agents", "save_agents">>]

\* faulty variant of delete_agent: the list is saved whether or not a record
\* was removed
delete_agent_always_saves(f, agent_id) ==
    LET L == load_agents(f)
        kept == SelectSeq(L.agents, LAMBDA a : a["id"] # agent_id)
    IN  IF L.exc # "" THEN Raised(f, L.exc, <<"load_agents">>)
        ELSE [exc |-> "", file |-> save_agents(kept),
              ret |-> <<Len(kept) < Len(L.agents)>>,
              calls |-> <<"load_agents", "save_agents">>]

delete_agent(f, agent_id) ==
    LET L == load_agents(f)
        kept == SelectSeq(L.agents, LAMBDA a : a["id"] # agent_id)
    IN  IF L.exc # "" THEN Raised(f, L.exc, <<"load_agents">>)
        ELSE IF Len(kept) < Len(L.agents)
        THEN [exc |-> "", file |-> save_agents(kept), ret |-> <<TRUE>>,
              calls |-> <<"load_agents", "save_agents">>]
        ELSE [exc |-> "", file |-> f, ret |-> <<FALSE>>, calls |-> <<"load_agents">>]

\* agent_data.get("enabled", True)
get_enabled(agent_data) ==
    IF "enabled" \in DOMAIN agent_data THEN agent_data["enabled"] ELSE TRUE

toggle_agent(f, agent_id, fresh) ==
    LET L == load_agents(f)
        i == FirstIndex(L.agents, agent_id)
        agent_data ==
            [k \in DOMAIN L.agents[i] \cup {"enabled"} |->
                IF k = "enabled" THEN ~get_enabled(L.agents[i]) ELSE L.agents[i][k]]
    IN  IF L.exc # "" THEN Raised(f, L.exc, <<"load_agents">>)
        ELSE IF i = 0
        THEN [exc |-> "", file |-> f, ret |-> <<>>, calls |-> <<"load_agents">>]
        ELSE [exc |-> "", file |-> save_agents([L.agents EXCEPT ![i] = agent_data]),
              ret |-> <<from_dict(agent_data, fresh)>>,
              calls |-> <<"load_agents", "save_agents">>]

-----------------------------------------------------------------------------
(* Calls of the store's operations on one AgentService *)

\* keyword sets a caller constructs an AgentConfig from (no id, an id, an empty id)
ConfigKwargs ==
    { [name |-> "n1"],
      [id |-> "a", name |-> "n2", enabled |-> FALSE],
      [id |-> "", name |-> "n1"] }

\* keyword sets a caller passes to update_agent: a value and a None, and an
\* update that gives the id key itself
UpdateKwargs ==
    { [name |-> Some("n2"), voice |-> None],
      [id |-> Some("a"), enabled |-> Some(TRUE), name |-> None] }

\* ids a caller asks for: the ids in use and one no record has
AgentIds == {"a", "zz"} \cup {Uuid(n) : n \in 1..MaxUuid}

\* no request was answered
NoResponse == [status |-> 0, flash_type |-> "", flash_message |-> <<>>, template |-> ""]

Returned(r) == [exc |-> r.exc, val |-> r.ret]

Operation(name, agent_id, kwargs, config) ==
    [name |-> name, agent_id |-> agent_id, kwargs |-> kwargs, config |-> config]

\* AgentService() on a directory without agents.json
Init ==
    /\ file = ensure_data_dir(Missing).file
    /\ service = TRUE
    /\ nextUuid = 1
    /\ pre = Missing
    /\ op = Operation("init", "", <<>>, <<>>)
    /\ ret = [exc |-> "", val |-> <<>>]
    /\ calls = ensure_data_dir(Missing).calls
    /\ resp = NoResponse
    /\ pc = <<>> /\ snap = <<>> /\ req = <<>>

Finish(name, agent_id, kwargs, config, r) ==
    /\ file' = r.file
    /\ pre' = file
    /\ op' = Operation(name, agent_id, kwargs, config)
    /\ ret' = Returned(r)
    /\ calls' = r.calls
    /\ resp' = NoResponse

Create ==
    \E kwargs \in ConfigKwargs :
        /\ Len(load_agents(file).agents) < MaxAgents
        /\ DrawsUuid(kwargs) => nextUuid <= MaxUuid
        /\ LET config == AgentConfig(kwargs, Uuid(nextUuid)) IN
           Finish("create", "", kwargs, <<config>>, create_agent(file, config))
        /\ nextUuid' = IF DrawsUuid(kwargs) THEN nextUuid + 1 ELSE nextUuid
        /\ UNCHANGED <<service, pc, snap, req>>

Update ==
    \E agent_id \in AgentIds, kwargs \in UpdateKwargs :
        /\ Finish("update", agent_id, kwargs, <<>>,
                  update_agent(file, agent_id, kwargs, Uuid(nextUuid)))
        /\ UNCHANGED <<service, nextUuid, pc, snap, req>>

Delete ==
    \E agent_id \in AgentIds :
        /\ Finish("delete", agent_id, <<>>, <<>>, delete_agent(file, agent_id))
        /\ UNCHANGED <<service, nextUuid, pc, snap, req>>

Toggle ==
    \E agent_id \in AgentIds :
        /\ Finish("toggle", agent_id, <<>>, <<>>,
                  toggle_agent(file, agent_id, Uuid(nextUuid)))
        /\ UNCHANGED <<service, nextUuid, pc, snap, req>>

Get ==
    \E agent_id \in AgentIds :
        /\ Finish("get", agent_id, <<>>, <<>>, get_agent(file, agent_id, Uuid(nextUuid)))
        /\ UNCHANGED <<service, nextUuid, pc, snap, req>>

List ==
    /\ Finish("list", "", <<>>, <<>>, list_agents(file, Uuid(nextUuid)))
    /\ UNCHANGED <<service, nextUuid, pc, snap, req>>

Next == Create \/ Update \/ Delete \/ Toggle \/ Get \/ List

Spec == Init /\ [][Next]_vars

-----------------------------------------------------------------------------
(* Reads of a file the service did not write: SpecLoad *)

\* dicts a file may hold: what the service writes, and a hand-written one
\* that leaves the optional keys out
StoredDicts ==
    {to_dict(AgentConfig(kwargs, Uuid(n))) : kwargs \in ConfigKwargs, n \in 1..MaxUuid}
        \cup {[id |-> "a", name |-> "n1"]}

SeqsUpTo(S, n) == UNION {[1..k -> S] : k \in 0..n}

LoadFiles ==
    {Missing, Invalid, NotObject, NoAgentsKey}
        \cup {Document(agents) : agents \in SeqsUpTo(StoredDicts, MaxAgents)}

InitLoad ==
    /\ file \in LoadFiles
    /\ service = TRUE
    /\ nextUuid = 1
    /\ pre = file
    /\ op = Operation("init", "", <<>>, <<>>)
    /\ ret = [exc |-> "", val |-> <<>>]
    /\ calls = <<>>
    /\ resp = NoResponse
    /\ pc = <<>> /\ snap = <<>> /\ req = <<>>

NextLoad == List \/ Get

SpecLoad == InitLoad /\ [][NextLoad]_vars

-----------------------------------------------------------------------------
(* Claims about the store's operations *)

Found(agents, agent_id) == \E i \in 1..Len(agents) : agents[i]["id"] = agent_id

Saved == \E k \in 1..Len(calls) : calls[k] = "save_agents"

\* C3: update_agent on an id some record has overwrites, in the first record
\* with that id, exactly the fields given with a value other than None, leaves
\* its other fields, the other records and the order as they were, and returns
\* the updated record; on an id no record has it returns None and does not
\* write the file.
C3_UpdateOverwritesOnlyGivenFields ==
    op.name = "update" =>
        LET before == pre.agents
            after == file.agents
            kwargs == op.kwargs
        IN  IF Found(before, op.agent_id)
            THEN \E i \in 1..Len(before) :
                    /\ before[i]["id"] = op.agent_id
                    /\ \A j \in 1..(i - 1) : before[j]["id"] # op.agent_id
                    /\ Len(after) = Len(before)
                    /\ \A j \in 1..Len(before) : j # i => after[j] = before[j]
                    /\ DOMAIN after[i] = DOMAIN before[i]
                    /\ \A f \in DOMAIN before[i] :
                          after[i][f] =
                            IF f \in DOMAIN kwargs /\ kwargs[f] # None
                            THEN Val(kwargs[f]) ELSE before[i][f]
                    /\ ret = [exc |-> "", val |-> <<after[i]>>]
            ELSE ret = [exc |-> "", val |-> <<>>] /\ file = pre /\ ~Saved

\* an update of the first of two records that passes None for one field
C3_Witness ==
    /\ op.name = "update"
    /\ Len(pre.agents) = 2
    /\ pre.agents[1]["id"] = op.agent_id
    /\ file # pre
    /\ \E f \in DOMAIN op.kwargs : op.kwargs[f] = None

\* C4: after delete_agent(id) on an id some record has, it returned True,
\* get_agent(id) returns None and the records with another id remain in their
\* order; on an id no record has it returns False and does not write the file.
C4_DeleteRemovesOnlyThatId ==
    op.name = "delete" =>
        LET before == pre.agents
            after == file.agents
        IN  IF Found(before, op.agent_id)
            THEN /\ ret = [exc |-> "", val |-> <<TRUE>>]
                 /\ get_agent(file, op.agent_id, Uuid(nextUuid)).ret = <<>>
                 /\ after = SelectSeq(before, LAMBDA a : a["id"] # op.agent_id)
            ELSE ret = [exc |-> "", val |-> <<FALSE>>] /\ file = pre /\ ~Saved

\* a delete that removed one of two records
C4_Witness ==
    /\ op.name = "delete"
    /\ ret.val = <<TRUE>>
    /\ Len(pre.agents) = 2
    /\ Len(file.agents) = 1

\* C5 (as claimed): after create_agent(r), get_agent(r.id) and the last element
\* of list_agents() equal r in every field, the records stored before precede
\* it, and an id the caller did not give is non-empty and new to the store.
C5_CreateThenGetReturnsRecord ==
    op.name = "create" =>
        LET r == op.config[1]
            listed == list_agents(file, Uuid(nextUuid)).ret
        IN  /\ get_agent(file, r["id"], Uuid(nextUuid)).ret = <<r>>
            /\ Len(listed) = Len(pre.agents) + 1
            /\ listed[Len(listed)] = r
            /\ \A i \in 1..Len(pre.agents) : file.agents[i] = pre.agents[i]
            /\ \A f \in DOMAIN op.kwargs : f # "id" => r[f] = op.kwargs[f]
            /\ DrawsUuid(op.kwargs) => r["id"] # "" /\ ~Found(pre.agents, r["id"])

\* C6 (as claimed): list_agents() on a missing file, or on one whose content
\* is not the document {"agents": [...]}, returns the empty list and raises
\* nothing.
C6_ListOfMalformedFileIsEmpty ==
    (op.name = "list" /\ pre.kind # "object") => ret = [exc |-> "", val |-> <<>>]

\* C8 (as claimed): no two stored records have the same id.
C8_IdsUnique ==
    \A i, j \in 1..Len(file.agents) :
        i # j => file.agents[i]["id"] # file.agents[j]["id"]

-----------------------------------------------------------------------------
(* The admin routes (app/routes/agents.py) *)

\* a request: credentials is whether it carries valid admin credentials, csrf
\* whether its csrf_token is the session's, form its optional form fields and
\* the required name, lk what the real-time service does if it is called
Request(route, credentials, csrf, agent_id, form, lk) ==
    [name |-> route, credentials |-> credentials, csrf |-> csrf,
     agent_id |-> agent_id, form |-> form, lk |-> lk]

\* the guard of app.security.basic_auth: the request may pass
requires_admin(request) == request.credentials

\* app.security.csrf: the submitted token is the session's
verify_csrf_token(request) == request.csrf

Unauthorized == [status |-> 401, flash_type |-> "", flash_message |-> <<>>, template |-> ""]

\* the HTTPException verify_csrf_token raises, outside every try block
CsrfRejected == [status |-> 403, flash_type |-> "", flash_message |-> <<>>, template |-> ""]

\* RedirectResponse(url="/agents?flash_message=...&flash_type=...", status_code=303);
\* flash_message holds the parts of the text that quote() then encodes
Redirect(flash_type, message) ==
    [status |-> 303, flash_type |-> flash_type, flash_message |-> message, template |-> ""]

TemplateResponse(template) ==
    [status |-> 200, flash_type |-> "", flash_message |-> <<>>, template |-> template]

\* Depends(get_agent_service), resolved before the endpoint function is
\* called: the first request of a process constructs the AgentService
get_agent_service(sv, f) ==
    IF sv THEN [file |-> f, calls |-> <<>>]
    ELSE [file |-> ensure_data_dir(f).file,
          calls |-> <<"AgentService">> \o ensure_data_dir(f).calls]

Reply(f, cs, response, drew) ==
    [file |-> f, calls |-> cs, resp |-> response, drew |-> drew]

\* Form(default): the submitted value, or the default when the field is absent
Form(request, field, default) ==
    IF field \in DOMAIN request.form THEN request.form[field] ELSE default

\* Optional[str] = Form(None) followed by `value or ""`
FormOrEmpty(request, field) ==
    IF field \in DOMAIN request.form THEN request.form[field] ELSE ""

\* the keywords the create and update routes build from the form
FormKeywords(request) ==
    [name |-> request.form["name"],
     model_provider |-> Form(request, "model_provider", "google"),
     model |-> Form(request, "model", "gemini-2.0-flash-exp"),
     voice |-> Form(request, "voice", "Puck"),
     first_message |-> Form(request, "first_message", "Hello! How can I help you today?"),
     noise_cancellation |-> Form(request, "noise_cancellation", FALSE),
     n8n_mcp_url |-> FormOrEmpty(request, "n8n_mcp_url"),
     metadata |-> FormOrEmpty(request, "metadata")]

create_agent_route(request, sv, f, fresh) ==
    LET dep == get_agent_service(sv, f)
        agent == AgentConfig(FormKeywords(request), fresh)
        r == create_agent(dep.file, agent)
        cs == dep.calls \o <<"create_agent">> \o r.calls
    IN  IF ~requires_admin(request) THEN Reply(dep.file, dep.calls, Unauthorized, FALSE)
        ELSE IF ~verify_csrf_token(request)
        THEN Reply(dep.file, dep.calls, CsrfRejected, FALSE)
        ELSE IF r.exc # ""
        THEN Reply(r.file, cs, Redirect("error", <<"Error creating agent: ", r.exc>>), TRUE)
        ELSE Reply(r.file, cs,
                   Redirect("success", <<"Agent '", agent["name"], "' created successfully">>),
                   TRUE)

update_agent_route(request, sv, f, fresh) ==
    LET dep == get_agent_service(sv, f)
        kwargs == [k \in DOMAIN FormKeywords(request) |-> Some(FormKeywords(request)[k])]
        r == update_agent(dep.file, request.agent_id, kwargs, fresh)
        cs == dep.calls \o <<"update_agent">> \o r.calls
    IN  IF ~requires_admin(request) THEN Reply(dep.file, dep.calls, Unauthorized, FALSE)
        ELSE IF ~verify_csrf_token(request)
        THEN Reply(dep.file, dep.calls, CsrfRejected, FALSE)
        ELSE IF r.exc # ""
        THEN Reply(r.file, cs, Redirect("error", <<"Error updating agent: ", r.exc>>), FALSE)
        ELSE IF r.ret # <<>>
        THEN Reply(r.file, cs,
                   Redirect("success",
                            <<"Agent '", request.form["name"], "' updated successfully">>),
                   FALSE)
        ELSE Reply(r.file, cs, Redirect("error", <<"Agent not found">>), FALSE)

\* faulty variant of the delete route: no verify_csrf_token call
delete_agent_route_no_csrf(request, sv, f, fresh) ==
    LET dep == get_agent_service(sv, f)
        r == delete_agent(dep.file, request.agent_id)
        cs == dep.calls \o <<"delete_agent">> \o r.calls
    IN  IF ~requires_admin(request) THEN Reply(dep.file, dep.calls, Unauthorized, FALSE)
        ELSE IF r.exc # ""
        THEN Reply(r.file, cs, Redirect("error", <<"Error deleting agent: ", r.exc>>), FALSE)
        ELSE IF r.ret[1]
        THEN Reply(r.file, cs, Redirect("success", <<"Agent deleted successfully">>), FALSE)
        ELSE Reply(r.file, cs, Redirect("error", <<"Agent not found">>), FALSE)

\* faulty variant of the delete route: no @requires_admin decorator
delete_agent_route_unguarded(request, sv, f, fresh) ==
    LET dep == get_agent_service(sv, f)
        r == delete_agent(dep.file, request.agent_id)
        cs == dep.calls \o <<"delete_agent">> \o r.calls
    IN  IF ~verify_csrf_token(request)
        THEN Reply(dep.file, dep.calls, CsrfRejected, FALSE)
        ELSE IF r.exc # ""
        THEN Reply(r.file, cs, Redirect("error", <<"Error deleting agent: ", r.exc>>), FALSE)
        ELSE IF r.ret[1]
        THEN Reply(r.file, cs, Redirect("success", <<"Agent deleted successfully">>), FALSE)
        ELSE Reply(r.file, cs, Redirect("error", <<"Agent not found">>), FALSE)

delete_agent_route(request, sv, f, fresh) ==
    LET dep == get_agent_service(sv, f)
        r == delete_agent(dep.file, request.agent_id)
        cs == dep.calls \o <<"delete_agent">> \o r.calls
    IN  IF ~requires_admin(request) THEN Reply(dep.file, dep.calls, Unauthorized, FALSE)
        ELSE IF ~verify_csrf_token(request)
        THEN Reply(dep.file, dep.calls, CsrfRejected, FALSE)
        ELSE IF r.exc # ""
        THEN Reply(r.file, cs, Redirect("error", <<"Error deleting agent: ", r.exc>>), FALSE)
        ELSE IF r.ret[1]
        THEN Reply(r.file, cs, Redirect("success", <<"Agent deleted successfully">>), FALSE)
        ELSE Reply(r.file, cs, Redirect("error", <<"Agent not found">>), FALSE)

toggle_agent_route(request, sv, f, fresh) ==
    LET dep == get_agent_service(sv, f)
        r == toggle_agent(dep.file, request.agent_id, fresh)
        cs == dep.calls \o <<"toggle_agent">> \o r.calls
    IN  IF ~requires_admin(request) THEN Reply(dep.file, dep.calls, Unauthorized, FALSE)
        ELSE IF ~verify_csrf_token(request)
        THEN Reply(dep.file, dep.calls, CsrfRejected, FALSE)
        ELSE IF r.exc # ""
        THEN Reply(r.file, cs, Redirect("error", <<"Error toggling agent: ", r.exc>>), FALSE)
        ELSE IF r.ret # <<>>
        THEN Reply(r.file, cs,
                   Redirect("success",
                            <<"Agent '", r.ret[1]["name"], "' ",
                              IF r.ret[1]["enabled"] THEN "enabled" ELSE "disabled">>),
                   FALSE)
        ELSE Reply(r.file, cs, Redirect("error", <<"Agent not found">>), FALSE)

\* an exception no try block of the handler covers: the framework answers 500
ServerError == [status |-> 500, flash_type |-> "", flash_message |-> <<>>, template |-> ""]

\* the try block of test_agent: lk.create_room, lk.generate_token, the template
TestRoom(request) ==
    CASE request.lk = "create_room raises" ->
            [calls |-> <<"create_room">>,
             resp |-> Redirect("error", <<"Error creating test room: ", "create_room">>)]
      [] request.lk = "generate_token raises" ->
            [calls |-> <<"create_room", "generate_token">>,
             resp |-> Redirect("error", <<"Error creating test room: ", "generate_token">>)]
      [] OTHER ->
            [calls |-> <<"create_room", "generate_token">>,
             resp |-> TemplateResponse("agents/test.html.j2")]

\* faulty variant of the test route: the room is created before the enabled
\* flag is looked at
test_agent_route_room_first(request, sv, f, fresh) ==
    LET dep == get_agent_service(sv, f)
        r == get_agent(dep.file, request.agent_id, fresh)
        cs == dep.calls \o <<"get_agent">> \o r.calls
    IN  IF ~requires_admin(request) THEN Reply(dep.file, dep.calls, Unauthorized, FALSE)
        ELSE IF ~verify_csrf_token(request)
        THEN Reply(dep.file, dep.calls, CsrfRejected, FALSE)
        ELSE IF r.exc # "" THEN Reply(r.file, cs, ServerError, FALSE)
        ELSE IF r.ret = <<>>
        THEN Reply(r.file, cs, Redirect("error", <<"Agent not found">>), FALSE)
        ELSE IF ~r.ret[1]["enabled"]
        THEN Reply(r.file, cs \o <<"create_room">>,
                   Redirect("error", <<"Agent is disabled. Enable it first to test.">>),
                   FALSE)
        ELSE Reply(r.file, cs \o TestRoom(request).calls, TestRoom(request).resp, FALSE)

test_agent_route(request, sv, f, fresh) ==
    LET dep == get_agent_service(sv, f)
        r == get_agent(dep.file, request.agent_id, fresh)
        cs == dep.calls \o <<"get_agent">> \o r.calls
    IN  IF ~requires_admin(request) THEN Reply(dep.file, dep.calls, Unauthorized, FALSE)
        ELSE IF ~verify_csrf_token(request)
        THEN Reply(dep.file, dep.calls, CsrfRejected, FALSE)
        ELSE IF r.exc # "" THEN Reply(r.file, cs, ServerError, FALSE)
        ELSE IF r.ret = <<>>
        THEN Reply(r.file, cs, Redirect("error", <<"Agent not found">>), FALSE)
        ELSE IF ~r.ret[1]["enabled"]
        THEN Reply(r.file, cs,
                   Redirect("error", <<"Agent is disabled. Enable it first to test.">>),
                   FALSE)
        ELSE Reply(r.file, cs \o TestRoom(request).calls, TestRoom(request).resp, FALSE)

-----------------------------------------------------------------------------
(* Requests to one server process: SpecHttp *)

CreateRoute == "POST /agents/create"
UpdateRoute == "POST /agents/{agent_id}/update"
DeleteRoute == "POST /agents/{agent_id}/delete"
ToggleRoute == "POST /agents/{agent_id}/toggle"
TestRoute == "POST /agents/{agent_id}/test"

MutatingRoutes == {CreateRoute, UpdateRoute, DeleteRoute, ToggleRoute, TestRoute}

\* forms of create and update: the required name alone, or with optional fields
HttpForms ==
    { [name |-> "n1"],
      [name |-> "n2", voice |-> "alloy", noise_cancellation |-> TRUE,
       n8n_mcp_url |-> "http://n8n", metadata |-> "m"] }

\* the form of delete, toggle and test holds the csrf_token alone
NoFields == <<>>

\* path parameters: the ids create assigns, and one no record has
HttpIds == {"zz"} \cup {Uuid(n) : n \in 1..MaxUuid}

\* what the real-time service does when it is called
LkOutcomes == {"ok", "create_room raises", "generate_token raises"}

\* a server process starts: no AgentService yet, no agents.json yet
InitHttp ==
    /\ file = Missing
    /\ service = FALSE
    /\ nextUuid = 1
    /\ pre = Missing
    /\ op = Operation("init", "", <<>>, <<>>)
    /\ ret = [exc |-> "", val |-> <<>>]
    /\ calls = <<>>
    /\ resp = NoResponse
    /\ pc = <<>> /\ snap = <<>> /\ req = <<>>

Answer(request, reply) ==
    LET r == reply IN
    /\ file' = r.file
    /\ pre' = file
    /\ op' = request
    /\ calls' = r.calls
    /\ resp' = r.resp
    /\ service' = TRUE
    /\ nextUuid' = IF r.drew THEN nextUuid + 1 ELSE nextUuid
    /\ UNCHANGED <<ret, pc, snap, req>>

CreateRequest ==
    \E credentials \in BOOLEAN, csrf \in BOOLEAN, form \in HttpForms :
        /\ Len(load_agents(file).agents) < MaxAgents
        /\ nextUuid <= MaxUuid
        /\ LET request == Request(CreateRoute, credentials, csrf, "", form, "ok") IN
           Answer(request, create_agent_route(request, service, file, Uuid(nextUuid)))

UpdateRequest ==
    \E credentials \in BOOLEAN, csrf \in BOOLEAN, agent_id \in HttpIds, form \in HttpForms :
        LET request == Request(UpdateRoute, credentials, csrf, agent_id, form, "ok") IN
        Answer(request, update_agent_route(request, service, file, Uuid(nextUuid)))

DeleteRequest ==
    \E credentials \in BOOLEAN, csrf \in BOOLEAN, agent_id \in HttpIds :
        LET request == Request(DeleteRoute, credentials, csrf, agent_id, NoFields, "ok") IN
        Answer(request, delete_agent_route(request, service, file, Uuid(nextUuid)))

ToggleRequest ==
    \E credentials \in BOOLEAN, csrf \in BOOLEAN, agent_id \in HttpIds :
        LET request == Request(ToggleRoute, credentials, csrf, agent_id, NoFields, "ok") IN
        Answer(request, toggle_agent_route(request, service, file, Uuid(nextUuid)))

\* the real-time service's behaviour is an input only of a request that
\* passes both checks: no other request reaches the client
TestRequest ==
    \E credentials \in BOOLEAN, csrf \in BOOLEAN, agent_id \in HttpIds :
    \E lk \in IF credentials /\ csrf THEN LkOutcomes ELSE {"ok"} :
        LET request == Request(TestRoute, credentials, csrf, agent_id, NoFields, lk) IN
        Answer(request, test_agent_route(request, service, file, Uuid(nextUuid)))

\* the process is restarted: _agent_service is None again, the file stays
Restart ==
    /\ service
    /\ service' = FALSE
    /\ UNCHANGED <<file, nextUuid, pre, op, ret, calls, resp, pc, snap, req>>

NextHttp ==
    CreateRequest \/ UpdateRequest \/ DeleteRequest \/ ToggleRequest \/ TestRequest
        \/ Restart

SpecHttp == InitHttp /\ [][NextHttp]_vars

-----------------------------------------------------------------------------
(* Claims about the routes *)

\* the record list a reader of the file gets
Records(f) == load_agents(f).agents

Called(name) == \E k \in 1..Len(calls) : calls[k] = name

RecordOperations ==
    {"load_agents", "list_agents", "get_agent", "create_agent", "update_agent",
     "delete_agent", "toggle_agent"}

C2_CsrfRejectedBeforeAnyStoreCall ==
    (op.name \in MutatingRoutes /\ op.credentials /\ ~op.csrf) =>
        resp = CsrfRejected /\ calls = <<>> /\ file = pre

\* C2 (amended): an admin request whose csrf_token is not the session's is
\* rejected before any operation on the records is called, and the record list
\* is what it was; only the construction of the AgentService may have run
\* before, which writes the empty document when there was no file.
C2_CsrfRejectedBeforeRecordOperations ==
    (op.name \in MutatingRoutes /\ op.credentials /\ ~op.csrf) =>
        /\ resp = CsrfRejected
        /\ \A k \in 1..Len(calls) : calls[k] \notin RecordOperations
        /\ Records(file) = Records(pre)
        /\ Called("save_agents") => pre = Missing /\ file = Document(<<>>)
        /\ ~Called("save_agents") => file = pre

\* a rejected delete of a stored record, in a process that had to construct
\* its AgentService for this request
C2_Witness ==
    /\ op.name = DeleteRoute
    /\ op.credentials
    /\ ~op.csrf
    /\ Found(pre.agents, op.agent_id)
    /\ Called("AgentService")
    /\ resp.status = 403

\* position of the first call of that name, 0 when there is none
FirstCall(name) ==
    IF Called(name)
    THEN CHOOSE k \in 1..Len(calls) :
            calls[k] = name /\ \A j \in 1..(k - 1) : calls[j] # name
    ELSE 0

\* the first record with that id, as a sequence of length at most one
Stored(agents, agent_id) ==
    IF Found(agents, agent_id)
    THEN <<CHOOSE a \in {agents[i] : i \in 1..Len(agents)} :
             \E i \in 1..Len(agents) :
                /\ agents[i] = a /\ a["id"] = agent_id
                /\ \A j \in 1..(i - 1) : agents[j]["id"] # agent_id>>
    ELSE <<>>

\* C7: in a Test request the real-time client is called only after get_agent
\* found the record and its enabled flag is true, create_room before
\* generate_token; for a missing or a disabled agent the answer is an error
\* flash redirect (the "disabled" text for a disabled agent) and the client is
\* not called.
C7_TestCallsClientOnlyWhenEnabled ==
    op.name = TestRoute =>
        LET target == Stored(Records(pre), op.agent_id)
            usable == target # <<>> /\ target[1]["enabled"]
        IN  /\ (Called("create_room") \/ Called("generate_token")) =>
                  /\ usable
                  /\ Called("get_agent")
                  /\ FirstCall("get_agent") < FirstCall("create_room")
                  /\ Called("generate_token") =>
                        FirstCall("create_room") < FirstCall("generate_token")
            /\ (op.credentials /\ op.csrf /\ target = <<>>) =>
                  resp = Redirect("error", <<"Agent not found">>)
            /\ (op.credentials /\ op.csrf /\ target # <<>> /\ ~usable) =>
                  resp = Redirect("error", <<"Agent is disabled. Enable it first to test.">>)

\* a Test request for a stored agent that is disabled
C7_Witness ==
    /\ op.name = TestRoute
    /\ op.credentials /\ op.csrf
    /\ Found(Records(pre), op.agent_id)
    /\ ~Stored(Records(pre), op.agent_id)[1]["enabled"]
    /\ resp.flash_type = "error"
    /\ ~Called("create_room")

\* C10 (as claimed): an Update request leaves every field of the record that
\* its form did not provide, and the id and the enabled flag, as they were.
C10_UpdateKeepsAbsentFields ==
    (op.name = UpdateRoute /\ op.credentials /\ op.csrf
        /\ Found(Records(pre), op.agent_id)) =>
        LET before == Stored(Records(pre), op.agent_id)[1]
            after == Stored(Records(file), op.agent_id)[1]
        IN  /\ Found(Records(file), op.agent_id)
            /\ \A f \in Fields : f \notin DOMAIN op.form => after[f] = before[f]

-----------------------------------------------------------------------------
(* Concurrent mutations of one agents.json: SpecRace *)

\* server workers that share the file; each runs one store mutation, whose
\* _load_agents and _save_agents are separate steps with no lock between them
Workers == {"w1", "w2", "w3"}

\* the uuid of the record a worker's create request constructed
WorkerUuid(w) == CASE w = "w1" -> Uuid(3) [] w = "w2" -> Uuid(4) [] OTHER -> Uuid(5)

\* the store the workers start from: two records, created one after the other
RaceStore ==
    create_agent(create_agent(Document(<<>>), AgentConfig([name |-> "n1"], Uuid(1))).file,
                 AgentConfig([name |-> "n1"], Uuid(2))).file

RaceIds == {Uuid(1), Uuid(2)}

RaceRequests ==
    {Operation("toggle", agent_id, <<>>, <<>>) : agent_id \in RaceIds}
        \cup {Operation("delete", agent_id, <<>>, <<>>) : agent_id \in RaceIds}
        \cup {Operation("update", agent_id, [name |-> Some("n2"), voice |-> None], <<>>) :
                 agent_id \in RaceIds}
        \cup {Operation("create", "", [name |-> "n2"], <<>>)}

\* the store method a request runs, on the file content f
Run(request, f, fresh) ==
    CASE request.name = "toggle" -> toggle_agent(f, request.agent_id, fresh)
      [] request.name = "delete" -> delete_agent(f, request.agent_id)
      [] request.name = "update" -> update_agent(f, request.agent_id, request.kwargs, fresh)
      [] OTHER -> create_agent(f, AgentConfig(request.kwargs, fresh))

InitRace ==
    /\ file = RaceStore
    /\ service = TRUE
    /\ nextUuid = 3
    /\ pre = RaceStore
    /\ op = Operation("init", "", <<>>, <<>>)
    /\ ret = [w \in Workers |-> [exc |-> "", val |-> <<>>]]
    /\ calls = <<>>
    /\ resp = NoResponse
    /\ pc = [w \in Workers |-> "start"]
    /\ snap = [w \in Workers |-> <<>>]
    /\ req \in [Workers -> RaceRequests]

\* agents = self._load_agents()
RaceLoad(w) ==
    /\ pc[w] = "start"
    /\ pc' = [pc EXCEPT ![w] = "loaded"]
    /\ snap' = [snap EXCEPT ![w] = load_agents(file).agents]
    /\ calls' = Append(calls, <<w, "load_agents">>)
    /\ UNCHANGED <<file, service, nextUuid, pre, op, ret, resp, req>>

\* variant of the methods that holds a lock: the list is the file's list at
\* the time of the save
SnapshotReloaded(w) == load_agents(file).agents

\* the local variable agents of the method: what its _load_agents returned
Snapshot(w) == snap[w]

\* the rest of the method: the change to the loaded list, and _save_agents
RaceSave(w) ==
    /\ pc[w] = "loaded"
    /\ LET r == Run(req[w], Document(Snapshot(w)), WorkerUuid(w))
           saved == \E k \in 1..Len(r.calls) : r.calls[k] = "save_agents"
       IN  /\ file' = IF saved THEN r.file ELSE file
           /\ ret' = [ret EXCEPT ![w] = Returned(r)]
           /\ calls' = IF saved THEN Append(calls, <<w, "save_agents">>) ELSE calls
    /\ pc' = [pc EXCEPT ![w] = "done"]
    /\ UNCHANGED <<service, nextUuid, pre, op, resp, snap, req>>

NextRace == \E w \in Workers : RaceLoad(w) \/ RaceSave(w)

SpecRace == InitRace /\ [][NextRace]_vars

\* the request of worker w ended and reported success
Succeeded(w) ==
    /\ pc[w] = "done"
    /\ ret[w].exc = ""
    /\ IF req[w].name = "delete" THEN ret[w].val = <<TRUE>> ELSE ret[w].val # <<>>

\* every load came before every save
Overlapped ==
    \A i, j \in 1..Len(calls) :
        (calls[i][2] = "save_agents" /\ calls[j][2] = "load_agents") => j < i

LastSaver == calls[Len(calls)][1]

\* C9: when concurrent mutations have all loaded the file before any of them
\* saves it, and all report success, the final file is what the last saver
\* alone makes of the file they started from: the last full-file write wins
\* and the effects of the other requests are not in it.
C9_LastFullFileWriteWins ==
    ((\A w \in Workers : Succeeded(w)) /\ Overlapped) =>
        file = Run(req[LastSaver], pre, WorkerUuid(LastSaver)).file

\* w1 toggled the first record, w2 toggled the second, w3 renamed the first
\* and saved last: all three report success, and the file holds the new name
\* but neither toggle, one lost on the same record and one on another record
C9_Witness ==
    /\ \A w \in Workers : Succeeded(w)
    /\ req["w1"] = Operation("toggle", Uuid(1), <<>>, <<>>)
    /\ req["w2"] = Operation("toggle", Uuid(2), <<>>, <<>>)
    /\ req["w3"].name = "update" /\ req["w3"].agent_id = Uuid(1)
    /\ Len(file.agents) = 2
    /\ file.agents[1]["name"] = "n2"
    /\ file.agents[1]["enabled"] = pre.agents[1]["enabled"]
    /\ file.agents[2]["enabled"] = pre.agents[2]["enabled"]

-----------------------------------------------------------------------------
(* Requests to a process that finds whatever file is there: SpecHttpFiles *)

\* what a starting process may find where agents.json is looked for: no file,
\* or a file the service did not write
FoundFiles == {Missing, Invalid, NotObject, NoAgentsKey}

InitHttpFiles ==
    /\ file \in FoundFiles
    /\ service = FALSE
    /\ nextUuid = 1
    /\ pre = file
    /\ op = Operation("init", "", <<>>, <<>>)
    /\ ret = [exc |-> "", val |-> <<>>]
    /\ calls = <<>>
    /\ resp = NoResponse
    /\ pc = <<>> /\ snap = <<>> /\ req = <<>>

SpecHttpFiles == InitHttpFiles /\ [][NextHttp]_vars

\* a read of the store, or a call of the real-time client, raised in the
\* last request
FailureRaised ==
    \/ (\E k \in 1..Len(calls) : calls[k] = "load_agents") /\ load_agents(pre).exc # ""
    \/ Called("create_room") /\ op.lk = "create_room raises"
    \/ Called("generate_token") /\ op.lk = "generate_token raises"

\* C11 (as claimed): in a request to one of the five routes that carries
\* valid admin credentials and the session's csrf_token, every failure raised
\* by the store or by the real-time client ends in the redirect to /agents
\* with flash_type=error, and no request is answered with a server error.
C11_FailuresEndInErrorRedirect ==
    (op.name \in MutatingRoutes /\ op.credentials /\ op.csrf) =>
        /\ resp.status # 500
        /\ FailureRaised => resp.status = 303 /\ resp.flash_type = "error"

====
